---- MODULE Spec2Model ----
(***************************************************************************)
(* Grocery POS (src/app.py): the checkout of /pos, the refill of           *)
(* /inventory/refill, the catalog update of /products/import and the       *)
(* pricing helpers of OrderItem, over a SQLite store reached through one   *)
(* SQLAlchemy session per request thread.                                  *)
(*                                                                         *)
(* Units.  Money is an integer number of cents (Decimal quantized to 0.01).*)
(* gst_rate is in hundredths of a percent (Numeric(5,2): 5.00 is 500).     *)
(* A discount percentage typed into a form is in thousandths of a percent  *)
(* (33.333 is 33333), one digit finer than what a Numeric(5,2) column      *)
(* gives back, so that the store's rounding is a real conversion.          *)
(***************************************************************************)
EXTENDS Integers, Sequences, FiniteSets, TLC

----------------------------------------------------------------------------
(* Decimal arithmetic (decimal.Decimal under the default context)          *)

Abs(n) == IF n < 0 THEN -n ELSE n

Sign(n) == IF n < 0 THEN -1 ELSE 1

Front(s) == SubSeq(s, 1, Len(s) - 1)

(* Quantizing with ROUND_DOWN instead.                                     *)
moneyTruncating(num, den) == Sign(num) * (Abs(num) \div den)

(* money(x) for x = num / den, den > 0, in cents: quantize to 0.01 with    *)
(* ROUND_HALF_UP, which rounds a tie away from zero.                       *)
money(num, den) ==
    Sign(num) * ((Abs(num) \div den) + (IF 2 * (Abs(num) % den) >= den THEN 1 ELSE 0))

(* The precision of the default decimal context: 28 significant digits,   *)
(* rounded half-even.                                                      *)
prec == 28

RECURSIVE DigitsOf(_)
DigitsOf(n) == IF n < 10 THEN <<n>> ELSE Append(DigitsOf(n \div 10), n % 10)

RECURSIVE ToInt(_)
ToInt(ds) == IF ds = <<>> THEN 0 ELSE 10 * ToInt(Front(ds)) + ds[Len(ds)]

RECURSIVE Incr(_)
Incr(ds) ==
    IF ds = <<>> THEN <<1>>
    ELSE IF ds[Len(ds)] < 9 THEN [ds EXCEPT ![Len(ds)] = @ + 1]
    ELSE Append(Incr(Front(ds)), 0)

(* A non-negative Decimal is [coef |-> digits, exp |-> e]: coef * 10^e.    *)
(* RoundUp adds one unit in the last place, keeping at most prec digits.   *)
RoundUp(ds, exp) ==
    LET inc == Incr(ds)
    IN  IF Len(inc) > Len(ds) /\ Len(inc) > prec
        THEN [coef |-> Front(inc), exp |-> exp + 1]
        ELSE [coef |-> inc, exp |-> exp]

RECURSIVE DivLoop(_, _, _, _)
DivLoop(r, s, ds, exp) ==
    IF r = 0 \/ Len(ds) >= prec
    THEN [coef |-> ds, exp |-> exp, rem |-> r]
    ELSE LET d  == (10 * r) \div s
             rr == (10 * r) % s
         IN  DivLoop(rr, s, IF ds = <<>> /\ d = 0 THEN ds ELSE Append(ds, d), exp - 1)

(* Decimal a / Decimal s for integers a > 0, s > 0: the quotient to prec   *)
(* significant digits, ROUND_HALF_EVEN on what is left.                    *)
DecimalDiv(a, s) ==
    LET q   == a \div s
        res == DivLoop(a % s, s, IF q > 0 THEN DigitsOf(q) ELSE <<>>, 0)
        ds  == res.coef
        up  == \/ 2 * res.rem > s
               \/ 2 * res.rem = s /\ ds[Len(ds)] % 2 = 1
    IN  IF res.rem # 0 /\ up
        THEN RoundUp(ds, res.exp)
        ELSE [coef |-> ds, exp |-> res.exp]

RECURSIVE MulDigits(_, _, _)
MulDigits(ds, t, carry) ==
    IF ds = <<>>
    THEN IF carry = 0 THEN <<>> ELSE DigitsOf(carry)
    ELSE LET v == ds[Len(ds)] * t + carry
         IN  Append(MulDigits(Front(ds), t, v \div 10), v % 10)

AnyNonZero(ds) == \E i \in 1..Len(ds) : ds[i] # 0

(* Decimal x * Decimal t for an integer t > 0: the exact product rounded   *)
(* to prec significant digits, ROUND_HALF_EVEN.                            *)
DecimalMul(x, t) ==
    LET ds   == MulDigits(x.coef, t, 0)
        k    == Len(ds) - prec
        keep == SubSeq(ds, 1, prec)
        drop == SubSeq(ds, prec + 1, Len(ds))
        up   == \/ drop[1] > 5
                \/ drop[1] = 5 /\ (AnyNonZero(Tail(drop)) \/ keep[prec] % 2 = 1)
    IN  IF k <= 0 THEN [coef |-> ds, exp |-> x.exp]
        ELSE IF up THEN RoundUp(keep, x.exp + k)
        ELSE [coef |-> keep, exp |-> x.exp + k]

(* quantize(0.01, ROUND_HALF_UP) of a non-negative Decimal whose unit is   *)
(* the cent: the integer part plus one when the first dropped digit is 5   *)
(* or more.                                                                *)
RECURSIVE Pow10(_)
Pow10(n) == IF n = 0 THEN 1 ELSE 10 * Pow10(n - 1)

Quantize(x) ==
    LET L == Len(x.coef)
        k == -x.exp
    IN  IF k <= 0 THEN ToInt(x.coef) * Pow10(-k)
        ELSE (IF L > k THEN ToInt(SubSeq(x.coef, 1, L - k)) ELSE 0)
             + (IF L >= k /\ x.coef[L - k + 1] >= 5 THEN 1 ELSE 0)

(* money(total * factor) with factor = (subtotal - order_discount_amount)  *)
(* / subtotal, all three in cents, subtotal > 0: the quotient is rounded   *)
(* to 28 digits before it is multiplied, and the product again before it   *)
(* is quantized.                                                           *)
ScaleByFactor(total, subtotal, order_discount_amount) ==
    LET n == subtotal - order_discount_amount
    IN  IF total = 0 \/ n = 0 THEN 0
        ELSE Sign(total) * Sign(n)
             * Quantize(DecimalMul(DecimalDiv(Abs(n), subtotal), Abs(total)))

----------------------------------------------------------------------------
(* Bounds and inputs                                                       *)

(* Two request threads, each with its own browser session (cart cookie)    *)
(* and its own SQLAlchemy session.                                         *)
Clients == {1, 2}

Products == {1, 2}

(* At most this many lines are queued in one cart.                         *)
MaxCart == 2

(* A checkout is started only while fewer orders than this are committed.  *)
MaxOrders == 2

(* A refill is started only while fewer refills than this are committed.   *)
MaxRefills == 1

(* The catalog the runs start from, as /products/add leaves it: product 1  *)
(* is the seed row MILK500 with one unit left, product 2 has no barcode    *)
(* and is sold below cost.  Product 2's SKU is product 1's barcode (each   *)
(* column is unique on its own).                                           *)
InitProducts ==
    (1 :> [sku |-> "MILK500", barcode |-> "8901000000010", price |-> 2800,
           cost_price |-> 2400, gst_rate |-> 500, stock_qty |-> 1])
    @@
    (2 :> [sku |-> "8901000000010", barcode |-> "", price |-> 3000,
           cost_price |-> 3500, gst_rate |-> 1800, stock_qty |-> 2])

(* The add-line forms a client posts: barcode_or_sku ("" when the product  *)
(* is picked from the list), product_id, qty, line_discount.  Client 2     *)
(* only ever asks for product 1.                                           *)
AddLineForms(c) ==
    IF c = 1
    THEN { [barcode_or_sku |-> "", product_id |-> 1, qty |-> 1, line_discount |-> 0],
           [barcode_or_sku |-> "", product_id |-> 2, qty |-> 1, line_discount |-> 10000] }
    ELSE { [barcode_or_sku |-> "", product_id |-> 1, qty |-> 1, line_discount |-> 0] }

(* The checkout forms a client posts: phone, name ("" when left blank),    *)
(* order_discount.                                                         *)
CheckoutForms(c) ==
    IF c = 1
    THEN { [phone |-> "555", name |-> "Ann", order_discount |-> 0],
           [phone |-> "777", name |-> "", order_discount |-> 150000] }
    ELSE { [phone |-> "555", name |-> "Bob", order_discount |-> 10000] }

(* The refill forms: product_id, qty.                                      *)
RefillForms ==
    { [product_id |-> 1, qty |-> 1],
      [product_id |-> 1, qty |-> 0],
      [product_id |-> 3, qty |-> 1] }

(* The single-operator runs (SpecShop): one client, with a line discount   *)
(* of three decimals, one of 150%, a negative order discount, and catalog  *)
(* imports.                                                                *)
ShopAddLineForms ==
    { [barcode_or_sku |-> "", product_id |-> 1, qty |-> 1, line_discount |-> 0],
      [barcode_or_sku |-> "", product_id |-> 1, qty |-> 1, line_discount |-> 150000],
      [barcode_or_sku |-> "", product_id |-> 2, qty |-> 1, line_discount |-> 12346] }

ShopCheckoutForms ==
    { [phone |-> "555", name |-> "Ann", order_discount |-> 0],
      [phone |-> "777", name |-> "Cy", order_discount |-> -5000] }

(* The add-line forms of the cart runs (SpecCart): picked from the list    *)
(* (one line more than product 1 has in stock, a quantity of 0, a product  *)
(* id that does not exist) or scanned (an unknown token, the token that is *)
(* product 1's barcode and product 2's SKU, product 1's SKU); a scanned    *)
(* form carries the list's product_id all the same.                        *)
CartForms ==
    { [barcode_or_sku |-> "", product_id |-> 1, qty |-> 1, line_discount |-> 0],
      [barcode_or_sku |-> "", product_id |-> 1, qty |-> 2, line_discount |-> 0],
      [barcode_or_sku |-> "", product_id |-> 2, qty |-> 0, line_discount |-> 0],
      [barcode_or_sku |-> "", product_id |-> 3, qty |-> 1, line_discount |-> 0],
      [barcode_or_sku |-> "NOPE", product_id |-> 1, qty |-> 1, line_discount |-> 0],
      [barcode_or_sku |-> "8901000000010", product_id |-> 2, qty |-> 1,
       line_discount |-> 10000],
      [barcode_or_sku |-> "MILK500", product_id |-> 2, qty |-> 1, line_discount |-> 0] }

CartCheckoutForms == { [phone |-> "555", name |-> "Ann", order_discount |-> 0] }

(* The rows of an imported CSV that update an existing product: sku,       *)
(* price, cost_price, gst_rate; the stock_qty cell is left blank.          *)
ImportRows ==
    { [sku |-> "MILK500", price |-> 3000, cost_price |-> 2400, gst_rate |-> 1200],
      [sku |-> "MILK500", price |-> 2800, cost_price |-> 2400, gst_rate |-> 500] }

----------------------------------------------------------------------------
(* State                                                                   *)

VARIABLES
    products,        \* table products (committed rows), by id
    customers,       \* table customers (committed rows); the id is the index
    orders,          \* table orders with each order's order_items
    inventory_logs,  \* table inventory_logs (committed rows)
    db_lock,         \* the client whose transaction holds SQLite's write lock, or 0
    logged_in,       \* session["user_id"] is set
    cart,            \* session["cart"]
    pc,              \* where the client's request stands
    sess,            \* the request's SQLAlchemy session and local variables
    calc             \* the pricing calculator's inputs and results (SpecPricing)

vars == <<products, customers, orders, inventory_logs, db_lock, logged_in,
          cart, pc, sess, calc>>

db == <<products, customers, orders, inventory_logs>>

(* A session with no transaction and nothing loaded.                       *)
NoSession ==
    [products |-> <<>>, phone |-> "", name |-> "", cust |-> 0, new_cust |-> FALSE,
     order_discount_val |-> 0, order |-> <<>>, logs |-> <<>>, i |-> 0,
     subtotal |-> 0, tax_total |-> 0, profit_total |-> 0,
     product_id |-> 0, qty |-> 0]

Init ==
    /\ products = InitProducts
    /\ customers = <<>>
    /\ orders = <<>>
    /\ inventory_logs = <<>>
    /\ db_lock = 0
    /\ logged_in = [c \in Clients |-> FALSE]
    /\ cart = [c \in Clients |-> <<>>]
    /\ pc = [c \in Clients |-> "idle"]
    /\ sess = [c \in Clients |-> NoSession]
    /\ calc = <<>>

(* The inputs of the pricing calculator: an OrderItem's fields and the     *)
(* product's cost_price.                                                   *)
PricingInputs ==
    [unit_price : {100, 1050, 2800}, cost_price : {0, 1200, 2400},
     quantity : {1, 2, 3}, discount_pct : {0, 2500, 10000, 33333, 100000},
     gst_rate : {0, 500, 1800}]

PricingInit ==
    /\ products = InitProducts
    /\ customers = <<>>
    /\ orders = <<>>
    /\ inventory_logs = <<>>
    /\ db_lock = 0
    /\ logged_in = [c \in Clients |-> FALSE]
    /\ cart = [c \in Clients |-> <<>>]
    /\ pc = [c \in Clients |-> "idle"]
    /\ sess = [c \in Clients |-> NoSession]
    /\ \E in \in PricingInputs : calc = [in |-> in, out |-> <<>>]

----------------------------------------------------------------------------
(* Conversions                                                             *)

(* A line discount is kept in the cart as float(line_discount) and read    *)
(* back as Decimal(str(...)): for a value of at most 15 significant        *)
(* digits, which every form value here is, str gives the digits back.      *)
FloatStr(d) == d

(* What a Numeric(5,2) column gives back on SQLite: the value is bound as  *)
(* a float and the row's float is read as Decimal("%.2f" % value), that is *)
(* rounded to hundredths (a binary tie goes to the even digit).  In        *)
(* thousandths of a percent.                                               *)
result_processor(v) ==
    LET q == Abs(v) \div 10
        r == Abs(v) % 10
    IN  Sign(v) * 10 * (q + (IF r > 5 \/ (r = 5 /\ q % 2 = 1) THEN 1 ELSE 0))

(* An OrderItem as a later request loads it.                               *)
LoadedItem(item) == [item EXCEPT !.discount_pct = result_processor(@)]

----------------------------------------------------------------------------
(* OrderItem's computational helpers                                       *)

line_subtotal(item) == money(item.unit_price * item.quantity, 1)

line_discount_amount(item) == money(line_subtotal(item) * item.discount_pct, 100000)

line_taxable(item) == money(line_subtotal(item) - line_discount_amount(item), 1)

line_tax(item) == money(line_taxable(item) * item.gst_rate, 10000)

line_total(item) == money(line_taxable(item) + line_tax(item), 1)

(* cost_price is the product's current cost (self.product.cost_price).     *)
line_profit(item, cost_price) ==
    money((item.unit_price - cost_price) * item.quantity - line_discount_amount(item), 1)

(* The order's totals from the sums of the loop (pos, lines 826-844).      *)
OrderTotalsStaleTax(subtotal, tax_total, profit_total, order_discount) ==
    LET subtotal0 == money(subtotal, 1)
        discounted == order_discount > 0
        order_discount_amount == money(subtotal0 * order_discount, 100000)
        subtotal1 == IF discounted THEN money(subtotal0 - order_discount_amount, 1)
                     ELSE subtotal0
        scaled == discounted /\ subtotal > 0
        tax1 == IF scaled THEN ScaleByFactor(tax_total, subtotal, order_discount_amount)
                ELSE tax_total
        profit1 == IF scaled
                   THEN ScaleByFactor(profit_total, subtotal, order_discount_amount)
                   ELSE profit_total
    IN  [subtotal      |-> subtotal1,
         tax_total     |-> money(tax1, 1),
         grand_total   |-> money(subtotal1 + money(tax_total, 1), 1),
         profit_amount |-> money(profit1, 1)]

OrderTotals(subtotal, tax_total, profit_total, order_discount) ==
    LET subtotal0 == money(subtotal, 1)
        discounted == order_discount > 0
        order_discount_amount == money(subtotal0 * order_discount, 100000)
        subtotal1 == IF discounted THEN money(subtotal0 - order_discount_amount, 1)
                     ELSE subtotal0
        scaled == discounted /\ subtotal > 0
        tax1 == IF scaled THEN ScaleByFactor(tax_total, subtotal, order_discount_amount)
                ELSE tax_total
        profit1 == IF scaled
                   THEN ScaleByFactor(profit_total, subtotal, order_discount_amount)
                   ELSE profit_total
    IN  [subtotal      |-> subtotal1,
         tax_total     |-> money(tax1, 1),
         grand_total   |-> money(subtotal1 + money(tax1, 1), 1),
         profit_amount |-> money(profit1, 1)]

----------------------------------------------------------------------------
(* Queries and constraints                                                 *)

(* s.query(Customer).filter_by(phone=phone).first(): the id, or 0.         *)
CustomerByPhone(phone) ==
    IF \E i \in 1..Len(customers) : customers[i].phone = phone
    THEN CHOOSE i \in 1..Len(customers) : customers[i].phone = phone
    ELSE 0

(* unique=True on customers.phone: the INSERT of a phone a committed row   *)
(* holds raises IntegrityError.                                            *)
UniquePhoneUnchecked(phone) == TRUE

UniquePhone(phone) == \A k \in 1..Len(customers) : customers[k].phone # phone

(* The rows a token matches, by column (each column is unique).            *)
ByBarcode(token) == {p \in Products : products[p].barcode = token}

BySku(token) == {p \in Products : products[p].sku = token}

(* The lookup with the SKU column searched first.                          *)
ResolveProductSkuFirst(f) ==
    IF f.barcode_or_sku # ""
    THEN IF BySku(f.barcode_or_sku) # {} THEN BySku(f.barcode_or_sku)
         ELSE IF ByBarcode(f.barcode_or_sku) # {} THEN ByBarcode(f.barcode_or_sku)
         ELSE {0}
    ELSE IF f.product_id \in Products THEN {f.product_id} ELSE {0}

(* The product ids an add-line form can resolve to (0: no product).  A     *)
(* token is looked up with barcode == token OR sku == token and .first()   *)
(* (line 772); the form's product_id counts only without a token.  The     *)
(* query has no ORDER BY.  SQLite answers it by searching the unique index *)
(* of each OR term in the order the terms are written (MULTI-INDEX OR),    *)
(* the barcode index first, as long as the database holds no ANALYZE       *)
(* statistics, and the program never gathers any: the row whose barcode    *)
(* matches comes first.                                                    *)
ResolveProduct(f) ==
    IF f.barcode_or_sku # ""
    THEN IF ByBarcode(f.barcode_or_sku) # {} THEN ByBarcode(f.barcode_or_sku)
         ELSE IF BySku(f.barcode_or_sku) # {} THEN BySku(f.barcode_or_sku)
         ELSE {0}
    ELSE IF f.product_id \in Products THEN {f.product_id} ELSE {0}

(* CheckConstraint("stock_qty >= 0") and the other checks of products.     *)
ProductConstraints(row) ==
    /\ row.price >= 0
    /\ row.cost_price >= 0
    /\ row.gst_rate >= 0
    /\ row.stock_qty >= 0

Refills == {k \in 1..Len(inventory_logs) : inventory_logs[k].reason = "refill"}

----------------------------------------------------------------------------
(* Requests                                                                *)

Idle(c) == logged_in[c] /\ pc[c] = "idle"

(* The clients with a checkout, or a refill, under way: a new one starts   *)
(* only while these and the committed ones stay under the bound.           *)
CheckingOut == {c \in Clients : pc[c] \in {"checkout", "customer", "lines"}}

Refilling == {c \in Clients : pc[c] = "refill"}

(* The request ends: the thread's session goes with it.                    *)
EndRequest(c) ==
    /\ pc' = [pc EXCEPT ![c] = "idle"]
    /\ sess' = [sess EXCEPT ![c] = NoSession]

login(c) ==
    /\ ~logged_in[c]
    /\ logged_in' = [logged_in EXCEPT ![c] = TRUE]
    /\ UNCHANGED <<db, db_lock, cart, pc, sess, calc>>

(* session.clear() drops the cart with the user id.                        *)
logout(c) ==
    /\ Idle(c)
    /\ logged_in' = [logged_in EXCEPT ![c] = FALSE]
    /\ cart' = [cart EXCEPT ![c] = <<>>]
    /\ UNCHANGED <<db, db_lock, pc, sess, calc>>

(* The message an add-line flashes (lines 773-790) once the product is     *)
(* resolved to pid: the tests come in this order.                          *)
AddLineFlashNoStockTest(pid, f) ==
    IF pid = 0
    THEN (IF f.barcode_or_sku # "" THEN "Product not found by barcode/SKU"
          ELSE "Product not found")
    ELSE IF f.qty <= 0 THEN "Invalid quantity"
    ELSE "Item added"

AddLineFlash(pid, f) ==
    IF pid = 0
    THEN (IF f.barcode_or_sku # "" THEN "Product not found by barcode/SKU"
          ELSE "Product not found")
    ELSE IF f.qty <= 0 THEN "Invalid quantity"
    ELSE IF products[pid].stock_qty < f.qty THEN "Not enough stock"
    ELSE "Item added"

(* Lines 782-789: the line is queued when the product resolves, qty > 0    *)
(* and the stock read covers qty; nothing is written to the store.         *)
add_line_reserving(c, f, pid) ==
    IF AddLineFlash(pid, f) = "Item added"
    THEN /\ cart' = [cart EXCEPT ![c] = Append(@, [product_id |-> pid,
                                                    qty |-> f.qty,
                                                    discount |-> f.line_discount])]
         /\ products' = [products EXCEPT ![pid].stock_qty = @ - f.qty]
         /\ UNCHANGED <<customers, orders, inventory_logs>>
    ELSE UNCHANGED <<cart, db>>

add_line(c, f, pid) ==
    /\ cart' = IF AddLineFlash(pid, f) = "Item added"
               THEN [cart EXCEPT ![c] = Append(@, [product_id |-> pid,
                                                   qty |-> f.qty,
                                                   discount |-> f.line_discount])]
               ELSE cart
    /\ UNCHANGED db

(* POST /pos with add_line (lines 767-791).                                *)
pos_add_line(c, f) ==
    /\ Idle(c)
    /\ Len(cart[c]) < MaxCart
    /\ \E pid \in ResolveProduct(f) : add_line(c, f, pid)
    /\ UNCHANGED <<db_lock, logged_in, pc, sess, calc>>

(* The same request, with the form, the product it resolved to and the     *)
(* flashed message kept, as the redirected page shows them.                *)
pos_add_line_flash(c, f) ==
    /\ Idle(c)
    /\ Len(cart[c]) < MaxCart
    /\ \E pid \in ResolveProduct(f) :
          /\ add_line(c, f, pid)
          /\ calc' = [form |-> f, pid |-> pid, flash |-> AddLineFlash(pid, f)]
    /\ UNCHANGED <<db_lock, logged_in, pc, sess>>

(* "if not cart" of line 797.                                              *)
EmptyCartNever(c) == FALSE

EmptyCart(c) == cart[c] = <<>>

(* POST /pos, checkout: the product list is loaded (line 760), the form is *)
(* read and an empty cart is turned away (lines 794-798).                  *)
pos_checkout(c, f) ==
    /\ Idle(c)
    /\ Len(orders) + Cardinality(CheckingOut) < MaxOrders
    /\ IF EmptyCart(c)
       THEN UNCHANGED <<pc, sess>>
       ELSE /\ pc' = [pc EXCEPT ![c] = "checkout"]
            /\ sess' = [sess EXCEPT ![c] =
                          [NoSession EXCEPT !.products = products,
                                            !.phone = f.phone,
                                            !.name = IF f.name = "" THEN "Customer"
                                                     ELSE f.name,
                                            !.order_discount_val = f.order_discount]]
    /\ UNCHANGED <<db, db_lock, logged_in, cart, calc>>

(* Line 799: the customer is looked up by phone.                           *)
pos_find_customer(c) ==
    /\ pc[c] = "checkout"
    /\ pc' = [pc EXCEPT ![c] = "customer"]
    /\ sess' = [sess EXCEPT ![c].cust = CustomerByPhone(sess[c].phone)]
    /\ UNCHANGED <<db, db_lock, logged_in, cart, calc>>

(* Lines 800-807: the new customer and the order are flushed, which begins *)
(* the transaction and takes the write lock.  A customer another request   *)
(* committed since the lookup fails the unique phone: the flush raises and *)
(* the request answers 500.                                                *)
pos_flush_order(c) ==
    /\ pc[c] = "customer"
    /\ db_lock = 0
    /\ IF sess[c].cust = 0 /\ ~UniquePhone(sess[c].phone)
       THEN /\ EndRequest(c)
            /\ UNCHANGED db_lock
       ELSE LET cust == IF sess[c].cust = 0 THEN Len(customers) + 1 ELSE sess[c].cust
            IN  /\ db_lock' = c
                /\ pc' = [pc EXCEPT ![c] = "lines"]
                /\ sess' = [sess EXCEPT ![c].new_cust = (sess[c].cust = 0),
                                        ![c].cust = cust,
                                        ![c].order = [id |-> Len(orders) + 1,
                                                      customer_id |-> cust,
                                                      order_discount |-> sess[c].order_discount_val,
                                                      items |-> <<>>],
                                        ![c].i = 1]
    /\ UNCHANGED <<db, logged_in, cart, calc>>

(* The stock test of line 812.                                             *)
InStockAlways(prod, qty) == TRUE

InStock(prod, qty) == ~(prod.stock_qty < qty)

(* The products rows the commit's flush writes: an UPDATE sets stock_qty   *)
(* of each product the loop changed to the session's value.                *)
FlushedProducts(c) ==
    LET items == sess[c].order.items
        dirty == {items[k].product_id : k \in 1..Len(items)}
    IN  [p \in Products |->
            IF p \in dirty
            THEN [products[p] EXCEPT !.stock_qty = sess[c].products[p].stock_qty]
            ELSE products[p]]

(* s.rollback() of line 813: what the transaction flushed or holds is     *)
(* dropped, the lock is released, and the request ends with the cart as it *)
(* was.                                                                    *)
rollback_partial(c) ==
    /\ db_lock' = 0
    /\ EndRequest(c)
    /\ products' = FlushedProducts(c)
    /\ inventory_logs' = inventory_logs \o sess[c].logs
    /\ UNCHANGED <<customers, orders, cart>>

rollback_clearing_cart(c) ==
    /\ db_lock' = 0
    /\ EndRequest(c)
    /\ cart' = [cart EXCEPT ![c] = <<>>]
    /\ UNCHANGED db

rollback(c) ==
    /\ db_lock' = 0
    /\ EndRequest(c)
    /\ UNCHANGED <<db, cart>>

(* The InventoryLog row of line 820.                                      *)
SaleLogUnsigned(product_id, qty) ==
    [product_id |-> product_id, change_qty |-> qty, reason |-> "sale"]

SaleLog(product_id, qty) ==
    [product_id |-> product_id, change_qty |-> -qty, reason |-> "sale"]

(* One pass of the loop of lines 809-824, for cart line i.  s.get finds   *)
(* the product in the session's identity map, as line 760 loaded it.  A    *)
(* shortfall rolls the transaction back and ends the request.              *)
pos_reserve_line(c) ==
    /\ pc[c] = "lines"
    /\ sess[c].i <= Len(cart[c])
    /\ LET line == cart[c][sess[c].i]
           prod == sess[c].products[line.product_id]
           qty  == line.qty
           item == [product_id   |-> line.product_id,
                    quantity     |-> qty,
                    unit_price   |-> prod.price,
                    gst_rate     |-> prod.gst_rate,
                    discount_pct |-> FloatStr(line.discount)]
       IN  IF ~InStock(prod, qty)
           THEN rollback(c)
           ELSE /\ sess' = [sess EXCEPT
                      ![c].products[line.product_id].stock_qty = @ - qty,
                      ![c].order.items = Append(@, item),
                      ![c].logs = Append(@, SaleLog(line.product_id, qty)),
                      ![c].subtotal = @ + line_taxable(item),
                      ![c].tax_total = @ + line_tax(item),
                      ![c].profit_total = @ + line_profit(item, prod.cost_price),
                      ![c].i = @ + 1]
                /\ UNCHANGED <<db, db_lock, cart, pc>>
    /\ UNCHANGED <<logged_in, calc>>

(* Lines 826-849: the totals, s.commit(), and the cart is emptied.  A row  *)
(* that breaks a CHECK constraint fails the flush: nothing is committed    *)
(* and the request answers 500.                                            *)
pos_commit(c) ==
    /\ pc[c] = "lines"
    /\ sess[c].i > Len(cart[c])
    /\ LET totals == OrderTotals(sess[c].subtotal, sess[c].tax_total,
                                 sess[c].profit_total, sess[c].order.order_discount)
           order  == [customer_id    |-> sess[c].order.customer_id,
                      order_discount |-> sess[c].order.order_discount,
                      subtotal       |-> totals.subtotal,
                      tax_total      |-> totals.tax_total,
                      grand_total    |-> totals.grand_total,
                      profit_amount  |-> totals.profit_amount,
                      items          |-> sess[c].order.items]
           rows   == FlushedProducts(c)
       IN  IF \A p \in Products : ProductConstraints(rows[p])
           THEN /\ products' = rows
                /\ customers' = IF sess[c].new_cust
                                THEN Append(customers, [name |-> sess[c].name,
                                                        phone |-> sess[c].phone])
                                ELSE customers
                /\ orders' = Append(orders, order)
                /\ inventory_logs' = inventory_logs \o sess[c].logs
                /\ cart' = [cart EXCEPT ![c] = <<>>]
           ELSE UNCHANGED <<db, cart>>
    /\ db_lock' = 0
    /\ EndRequest(c)
    /\ UNCHANGED <<logged_in, calc>>

(* POST /inventory/refill, lines 678-685: the form is read and the product *)
(* loaded; a quantity <= 0 or an unknown product ends in the except branch.*)
refill(c, f) ==
    /\ Idle(c)
    /\ Cardinality(Refills) + Cardinality(Refilling) < MaxRefills
    /\ IF f.qty <= 0 \/ f.product_id \notin Products
       THEN UNCHANGED <<pc, sess>>
       ELSE /\ pc' = [pc EXCEPT ![c] = "refill"]
            /\ sess' = [sess EXCEPT ![c] =
                          [NoSession EXCEPT
                              !.products = (f.product_id :> products[f.product_id]),
                              !.product_id = f.product_id,
                              !.qty = f.qty]]
    /\ UNCHANGED <<db, db_lock, logged_in, cart, calc>>

(* Lines 686-689: stock_qty += qty on the loaded row, the log entry, and   *)
(* s.commit(), whose flush writes the row's new stock_qty.                 *)
refill_commit(c) ==
    /\ pc[c] = "refill"
    /\ db_lock = 0
    /\ LET p   == sess[c].product_id
           row == [products[p] EXCEPT
                      !.stock_qty = sess[c].products[p].stock_qty + sess[c].qty]
       IN  IF ProductConstraints(row)
           THEN /\ products' = [products EXCEPT ![p] = row]
                /\ inventory_logs' = Append(inventory_logs,
                                            [product_id |-> p,
                                             change_qty |-> sess[c].qty,
                                             reason |-> "refill"])
           ELSE UNCHANGED <<products, inventory_logs>>
    /\ EndRequest(c)
    /\ UNCHANGED <<customers, orders, db_lock, logged_in, cart, calc>>

(* A flush that finds the write lock held until SQLite's busy timeout runs *)
(* out raises "database is locked": the checkout answers 500, the refill   *)
(* takes its except branch.                                                *)
database_locked(c) ==
    /\ pc[c] \in {"customer", "refill"}
    /\ db_lock \notin {0, c}
    /\ EndRequest(c)
    /\ UNCHANGED <<db, db_lock, logged_in, cart, calc>>

(* POST /products/import, lines 725-734 and 748, for a row whose SKU       *)
(* exists: price, cost_price and gst_rate are overwritten.                 *)
products_import(row) ==
    /\ db_lock = 0
    /\ \E p \in Products :
          /\ products[p].sku = row.sku
          /\ products' = [products EXCEPT ![p].price = row.price,
                                          ![p].cost_price = row.cost_price,
                                          ![p].gst_rate = row.gst_rate]
    /\ UNCHANGED <<customers, orders, inventory_logs, db_lock, logged_in, cart,
                   pc, sess, calc>>

Next ==
    \/ \E c \in Clients : login(c)
    \/ logout(1)
    \/ \E c \in Clients : \E f \in AddLineForms(c) : pos_add_line(c, f)
    \/ \E c \in Clients : \E f \in CheckoutForms(c) : pos_checkout(c, f)
    \/ \E c \in Clients : pos_find_customer(c)
    \/ \E c \in Clients : pos_flush_order(c)
    \/ \E c \in Clients : pos_reserve_line(c)
    \/ \E c \in Clients : pos_commit(c)
    \/ \E f \in RefillForms : refill(2, f)
    \/ refill_commit(2)
    \/ \E c \in Clients : database_locked(c)

(* Two clients at once: their checkouts interleave at every read and      *)
(* every flush, with the logouts of client 1 and the refills of client 2.  *)
Spec == Init /\ [][Next]_vars

ShopNext ==
    \/ login(1)
    \/ logout(1)
    \/ \E f \in ShopAddLineForms : pos_add_line(1, f)
    \/ \E f \in ShopCheckoutForms : pos_checkout(1, f)
    \/ pos_find_customer(1)
    \/ pos_flush_order(1)
    \/ pos_reserve_line(1)
    \/ pos_commit(1)
    \/ \E f \in RefillForms : refill(1, f)
    \/ refill_commit(1)
    \/ \E row \in ImportRows : products_import(row)

(* One operator at the till while the catalog is re-imported.              *)
SpecShop == Init /\ [][ShopNext]_vars

CartNext ==
    \/ login(1)
    \/ \E f \in CartForms : pos_add_line_flash(1, f)
    \/ \E f \in CartCheckoutForms : pos_checkout(1, f)
    \/ pos_find_customer(1)
    \/ pos_flush_order(1)
    \/ pos_reserve_line(1)
    \/ pos_commit(1)
    \/ \E f \in RefillForms : refill(1, f)
    \/ refill_commit(1)

(* One operator filling carts, by list and by scanner, between checkouts   *)
(* and refills that move the stock.                                        *)
SpecCart == Init /\ [][CartNext]_vars

(* The pricing calculator: the helpers of OrderItem applied to one input.  *)
price_line ==
    /\ calc.out = <<>>
    /\ LET item == [product_id   |-> 0,
                    quantity     |-> calc.in.quantity,
                    unit_price   |-> calc.in.unit_price,
                    gst_rate     |-> calc.in.gst_rate,
                    discount_pct |-> calc.in.discount_pct]
       IN  calc' = [calc EXCEPT !.out =
                      [line_subtotal        |-> line_subtotal(item),
                       line_discount_amount |-> line_discount_amount(item),
                       line_taxable         |-> line_taxable(item),
                       line_tax             |-> line_tax(item),
                       line_total           |-> line_total(item),
                       line_profit          |-> line_profit(item, calc.in.cost_price)]]
    /\ UNCHANGED <<db, db_lock, logged_in, cart, pc, sess>>

PricingNext == price_line

SpecPricing == PricingInit /\ [][PricingNext]_vars

(* The order totals as a calculator: the priced lines of a cart, each with *)
(* its product's cost_price, and the order discount of the checkout form.  *)
(* The lines: 13.50 at GST 18%; 50.00 at GST 10% and cost 40.00; 28.00     *)
(* with a line discount of 100%.                                           *)
TotalsItems ==
    { [product_id |-> 0, quantity |-> 1, unit_price |-> 1350, gst_rate |-> 1800,
       discount_pct |-> 0, cost_price |-> 1080],
      [product_id |-> 0, quantity |-> 1, unit_price |-> 5000, gst_rate |-> 1000,
       discount_pct |-> 0, cost_price |-> 4000],
      [product_id |-> 0, quantity |-> 1, unit_price |-> 2800, gst_rate |-> 500,
       discount_pct |-> 100000, cost_price |-> 2400] }

TotalsInputs ==
    [items : {<<a>> : a \in TotalsItems} \cup {<<a, b>> : a, b \in TotalsItems},
     order_discount : {0, 10000, 33333, 50000, 87000, 100000}]

TotalsInit ==
    /\ products = InitProducts
    /\ customers = <<>>
    /\ orders = <<>>
    /\ inventory_logs = <<>>
    /\ db_lock = 0
    /\ logged_in = [c \in Clients |-> FALSE]
    /\ cart = [c \in Clients |-> <<>>]
    /\ pc = [c \in Clients |-> "idle"]
    /\ sess = [c \in Clients |-> NoSession]
    /\ \E in \in TotalsInputs : calc = [in |-> in, out |-> <<>>]

(* The sums of the loop (lines 805-807 and 822-824) over the items.        *)
RECURSIVE LoopSums(_)
LoopSums(items) ==
    IF items = <<>>
    THEN [subtotal |-> 0, tax_total |-> 0, profit_total |-> 0]
    ELSE LET rest == LoopSums(Front(items))
             item == items[Len(items)]
         IN  [subtotal     |-> rest.subtotal + line_taxable(item),
              tax_total    |-> rest.tax_total + line_tax(item),
              profit_total |-> rest.profit_total + line_profit(item, item.cost_price)]

(* Lines 805-844 for one cart and one order discount.                      *)
total_order ==
    /\ calc.out = <<>>
    /\ LET sums == LoopSums(calc.in.items)
       IN  calc' = [calc EXCEPT !.out =
                      [sums   |-> sums,
                       totals |-> OrderTotals(sums.subtotal, sums.tax_total,
                                              sums.profit_total,
                                              calc.in.order_discount)]]
    /\ UNCHANGED <<db, db_lock, logged_in, cart, pc, sess>>

TotalsNext == total_order

SpecTotals == TotalsInit /\ [][TotalsNext]_vars

----------------------------------------------------------------------------
(* Properties                                                              *)

(* The checkout of client c is past its last cart line, and this step ends *)
(* it.                                                                     *)
Completes(c) == pc[c] = "lines" /\ sess[c].i > Len(cart[c]) /\ pc'[c] = "idle"

(* The checkout of client c ends in this step on a line whose stock test   *)
(* fails.                                                                  *)
Aborts(c) == pc[c] = "lines" /\ sess[c].i <= Len(cart[c]) /\ pc'[c] = "idle"

(* The committed orders that sold product p.                               *)
OrdersSelling(p) ==
    {k \in 1..Len(orders) :
        \E j \in 1..Len(orders[k].items) : orders[k].items[j].product_id = p}

RECURSIVE SumTaxable(_)
SumTaxable(items) ==
    IF items = <<>> THEN 0
    ELSE line_taxable(items[Len(items)]) + SumTaxable(Front(items))

RECURSIVE SumTax(_)
SumTax(items) ==
    IF items = <<>> THEN 0
    ELSE line_tax(items[Len(items)]) + SumTax(Front(items))

Loaded(items) == [j \in 1..Len(items) |-> LoadedItem(items[j])]

(* C1: in every reachable state, under every interleaving of checkouts and *)
(* refills, every product's committed stock_qty is >= 0; nor does a        *)
(* checkout's open transaction ever hold a negative stock_qty.             *)
C1_StockNeverNegative ==
    /\ \A p \in Products : products[p].stock_qty >= 0
    /\ \A c \in Clients : pc[c] = "lines" =>
          \A p \in Products : sess[c].products[p].stock_qty >= 0

(* Checkouts and a refill have interleaved and product 1 is sold out.      *)
C1_Witness ==
    /\ products[1].stock_qty = 0
    /\ Refills # {}
    /\ Cardinality(OrdersSelling(1)) = 2

(* C2: with one unit of product 1 in stock (and no refill), two checkouts  *)
(* that each hold a line of quantity 1 for it never both commit: at most   *)
(* one committed order sells it.                                           *)
C2_OneUnitOneSale ==
    Refills = {} => Cardinality(OrdersSelling(1)) <= 1

(* C3: a checkout that ends on a failed stock check leaves the persisted   *)
(* state (products, customers, orders with their items, inventory logs)    *)
(* and its cart exactly as they were; the persisted state is only ever     *)
(* written by a checkout all of whose lines passed the check, or by a      *)
(* refill.                                                                 *)
C3_AllOrNothing ==
    [][ /\ \A c \in Clients : Aborts(c) => db' = db /\ cart'[c] = cart[c]
        /\ db' # db => \E c \in Clients : Completes(c) \/ pc[c] = "refill" ]_vars

(* A checkout has flushed its order and reserved line 1, and the stock     *)
(* test of line 2 is about to fail.                                        *)
C3_Witness ==
    \E c \in Clients :
        /\ pc[c] = "lines"
        /\ sess[c].i = 2
        /\ Len(cart[c]) >= 2
        /\ Len(sess[c].order.items) = 1
        /\ sess[c].new_cust
        /\ ~InStock(sess[c].products[cart[c][2].product_id], cart[c][2].qty)

(* C4: every committed order has grand_total = subtotal + tax_total, in    *)
(* whole cents, whatever cart and order discount the checkout took.        *)
C4_GrandTotal ==
    \A k \in 1..Len(orders) :
        orders[k].grand_total = orders[k].subtotal + orders[k].tax_total

(* A committed order whose tax was scaled by an order discount.            *)
C4_Witness ==
    \E k \in 1..Len(orders) :
        /\ orders[k].order_discount > 0
        /\ orders[k].tax_total # 0
        /\ orders[k].tax_total # SumTax(orders[k].items)

(* C5: a checkout whose order discount is outside 0-100 is rejected, so    *)
(* every committed order has order_discount within 0..100 (percent, here   *)
(* in thousandths).                                                        *)
C5_OrderDiscountInRange ==
    \A k \in 1..Len(orders) :
        orders[k].order_discount >= 0 /\ orders[k].order_discount <= 100000

(* C6: a checkout with an empty cart goes no further than the test: no     *)
(* checkout is under way on an empty cart, every committed order owns at   *)
(* least one item, each of quantity > 0, and every customer row was        *)
(* created by a committed order.                                           *)
C6_EmptyCartRejected ==
    /\ \A c \in Clients : pc[c] \in {"checkout", "customer", "lines"} => ~EmptyCart(c)
    /\ \A k \in 1..Len(orders) :
          /\ Len(orders[k].items) >= 1
          /\ \A j \in 1..Len(orders[k].items) : orders[k].items[j].quantity > 0
    /\ \A i \in 1..Len(customers) :
          \E k \in 1..Len(orders) : orders[k].customer_id = i

(* After a committed checkout emptied the cart, the client may post a      *)
(* checkout again.                                                         *)
C6_Witness ==
    \E c \in Clients :
        /\ Idle(c)
        /\ EmptyCart(c)
        /\ Len(orders) = 1
        /\ Len(customers) = 1
        /\ Len(orders) + Cardinality(CheckingOut) < MaxOrders

(* The cart of c differs after the step by one appended line.              *)
LineAppended(c) ==
    /\ Len(cart'[c]) = Len(cart[c]) + 1
    /\ SubSeq(cart'[c], 1, Len(cart[c])) = cart[c]

(* C7 as stated: a client's cart changes only by a line being appended or  *)
(* by that client's checkout committing, which empties it; every other     *)
(* step leaves it as it was.                                               *)
C7_EmptiedOnlyByCommit ==
    [][ \A c \in Clients :
          /\ cart'[c] # cart[c] =>
                \/ LineAppended(c)
                \/ Completes(c) /\ Len(orders') = Len(orders) + 1 /\ cart'[c] = <<>>
          /\ (Completes(c) /\ Len(orders') = Len(orders) + 1) => cart'[c] = <<>> ]_vars

(* C7, amended: a client's cart changes only by a line being appended, by  *)
(* that client's checkout committing, or by that client logging out, the   *)
(* last two of which empty it; every other step, an aborted checkout       *)
(* included, leaves it as it was.                                          *)
C7_EmptiedByCommitOrLogout ==
    [][ \A c \in Clients :
          /\ cart'[c] # cart[c] =>
                \/ LineAppended(c)
                \/ Completes(c) /\ Len(orders') = Len(orders) + 1 /\ cart'[c] = <<>>
                \/ logged_in[c] /\ ~logged_in'[c] /\ cart'[c] = <<>>
          /\ (Completes(c) /\ Len(orders') = Len(orders) + 1) => cart'[c] = <<>> ]_vars

(* Client 2's checkout has committed and left its cart empty, while        *)
(* client 1 still holds the lines of a cart.                               *)
C7_Witness ==
    /\ Idle(2)
    /\ cart[2] = <<>>
    /\ \E k \in 1..Len(orders) : orders[k].order_discount = 10000
    /\ Len(cart[1]) = MaxCart

(* C8: at most one customer exists per phone; a customer row, once         *)
(* created, is never changed or removed; and the order a checkout commits  *)
(* references the one customer whose phone is the phone submitted, so that *)
(* equal phones give equal customer ids and different phones different     *)
(* ones.                                                                   *)
C8_FindOrCreateByPhone ==
    [][ /\ \A i, j \in 1..Len(customers') :
              customers'[i].phone = customers'[j].phone => i = j
        /\ Len(customers') >= Len(customers)
        /\ \A i \in 1..Len(customers) : customers'[i] = customers[i]
        /\ \A c \in Clients :
              (Completes(c) /\ Len(orders') = Len(orders) + 1) =>
                  LET o == orders'[Len(orders')]
                  IN  /\ o.customer_id \in 1..Len(customers')
                      /\ customers'[o.customer_id].phone = sess[c].phone ]_vars

(* Two committed checkouts gave phone 555, one as Ann and one as Bob: one *)
(* customer row serves both.                                               *)
C8_Witness ==
    /\ Len(customers) = 1
    /\ \E j, k \in 1..Len(orders) :
          /\ orders[j].order_discount = 0
          /\ orders[k].order_discount = 10000
          /\ orders[j].customer_id = orders[k].customer_id

(* C9: recomputing line_taxable and line_tax from the item fields a later  *)
(* request loads gives the figures that were summed into the order when it *)
(* was committed (orders without an order discount, whose subtotal and     *)
(* tax_total are those sums).                                              *)
C9_RecomputationReproduces ==
    \A k \in 1..Len(orders) :
        orders[k].order_discount <= 0 =>
            /\ SumTaxable(Loaded(orders[k].items)) = orders[k].subtotal
            /\ SumTax(Loaded(orders[k].items)) = orders[k].tax_total

(* Round half up of num/den, for num >= 0.                                 *)
RoundHalfUp(num, den) == (2 * num + den) \div (2 * den)

(* C10: for every input of the bounded set, each per-line figure equals    *)
(* the reference computed with round-half-up to cents after each step;     *)
(* 28.00 x 2 at 0% and GST 5% gives 56.00 / 2.80 / 58.80, and with cost    *)
(* 24.00 and a 10% discount the profit is 2.40.                            *)
C10_LinePricing ==
    calc.out # <<>> =>
        LET in       == calc.in
            out      == calc.out
            subtotal == in.unit_price * in.quantity
            discount == RoundHalfUp(subtotal * in.discount_pct, 100000)
            taxable  == subtotal - discount
            tax      == RoundHalfUp(taxable * in.gst_rate, 10000)
        IN  /\ out.line_subtotal = subtotal
            /\ out.line_discount_amount = discount
            /\ out.line_taxable = taxable
            /\ out.line_tax = tax
            /\ out.line_total = taxable + tax
            /\ out.line_profit = (in.unit_price - in.cost_price) * in.quantity - discount
            /\ (in.unit_price = 2800 /\ in.quantity = 2 /\ in.discount_pct = 0
                    /\ in.gst_rate = 500) =>
                  /\ out.line_taxable = 5600
                  /\ out.line_tax = 280
                  /\ out.line_total = 5880
            /\ (in.unit_price = 2800 /\ in.quantity = 2 /\ in.discount_pct = 10000
                    /\ in.cost_price = 2400) =>
                  /\ out.line_discount_amount = 560
                  /\ out.line_profit = 240

(* The line of the second example has been priced.                        *)
C10_Witness ==
    /\ calc.out # <<>>
    /\ calc.in.unit_price = 2800
    /\ calc.in.quantity = 2
    /\ calc.in.discount_pct = 10000
    /\ calc.in.cost_price = 2400
    /\ calc.in.gst_rate = 500
    /\ calc.out.line_discount_amount = 560
    /\ calc.out.line_profit = 240

(* Round half up of num/den, a tie going away from zero, for any num.      *)
RoundHalfAway(num, den) ==
    IF num < 0 THEN -RoundHalfUp(-num, den) ELSE RoundHalfUp(num, den)

(* C11: with S, T, P the sums over the cart's lines and d the order        *)
(* discount: for d = 0 the order has subtotal S, tax_total T and           *)
(* profit_amount P; for d in (0,100] it has subtotal S - round(S*d/100)    *)
(* and, when S > 0, tax_total and profit_amount are T and P times the      *)
(* unrounded ratio (S - round(S*d/100))/S, rounded once; when S = 0 they   *)
(* are T and P; grand_total is subtotal + tax_total.                       *)
C11_OrderAggregation ==
    calc.out # <<>> =>
        LET S   == SumTaxable(calc.in.items)
            T   == SumTax(calc.in.items)
            P   == calc.out.sums.profit_total
            d   == calc.in.order_discount
            sub == S - RoundHalfUp(S * d, 100000)
            o   == calc.out.totals
        IN  /\ d = 0 => o.subtotal = S /\ o.tax_total = T /\ o.profit_amount = P
            /\ d > 0 =>
                  /\ o.subtotal = sub
                  /\ S > 0 => /\ o.tax_total = RoundHalfAway(T * sub, S)
                              /\ o.profit_amount = RoundHalfAway(P * sub, S)
                  /\ S = 0 => o.tax_total = T /\ o.profit_amount = P
            /\ o.grand_total = o.subtotal + o.tax_total

(* C11, the part that holds: everything but the two scaled figures, and    *)
(* the example of the claim (S 100.00, T 10.00, P 20.00, d 10).            *)
C11_ExceptScaledTies ==
    calc.out # <<>> =>
        LET S   == SumTaxable(calc.in.items)
            T   == SumTax(calc.in.items)
            P   == calc.out.sums.profit_total
            d   == calc.in.order_discount
            sub == S - RoundHalfUp(S * d, 100000)
            o   == calc.out.totals
        IN  /\ d = 0 => o.subtotal = S /\ o.tax_total = T /\ o.profit_amount = P
            /\ d > 0 =>
                  /\ o.subtotal = sub
                  /\ S > 0 => /\ Abs(o.tax_total - RoundHalfAway(T * sub, S)) <= 1
                              /\ Abs(o.profit_amount - RoundHalfAway(P * sub, S)) <= 1
                  /\ S = 0 => o.tax_total = T /\ o.profit_amount = P
            /\ (S = 10000 /\ T = 1000 /\ P = 2000 /\ d = 10000) =>
                  /\ o.subtotal = 9000
                  /\ o.tax_total = 900
                  /\ o.profit_amount = 1800
                  /\ o.grand_total = 9900

(* C12: every line queued in a cart and every committed order item has a   *)
(* line discount within 0..100 (percent, here in thousandths): an add-line *)
(* with a discount outside the range queues nothing.                       *)
C12_LineDiscountInRange ==
    /\ \A c \in Clients : \A j \in 1..Len(cart[c]) :
          cart[c][j].discount >= 0 /\ cart[c][j].discount <= 100000
    /\ \A k \in 1..Len(orders) : \A j \in 1..Len(orders[k].items) :
          /\ orders[k].items[j].discount_pct >= 0
          /\ orders[k].items[j].discount_pct <= 100000

(* The units of product p in a sequence of order items.                    *)
RECURSIVE UnitsOf(_, _)
UnitsOf(items, p) ==
    IF items = <<>> THEN 0
    ELSE (IF items[Len(items)].product_id = p THEN items[Len(items)].quantity ELSE 0)
         + UnitsOf(Front(items), p)

(* Client c is at a cart line that the product's stock of this moment (the *)
(* committed stock_qty less what the earlier lines of the same checkout    *)
(* took) does not cover.                                                   *)
ShortAtDecrement(c) ==
    /\ pc[c] = "lines"
    /\ sess[c].i <= Len(cart[c])
    /\ LET line == cart[c][sess[c].i]
       IN  products[line.product_id].stock_qty
               - UnitsOf(sess[c].order.items, line.product_id) < line.qty

(* C13: the stock check of a checkout is made against the stock at the     *)
(* moment of each line's decrement: no checkout gets past a line whose     *)
(* product has, by then, through another committed checkout or an earlier  *)
(* line of the same cart, less stock than the line asks for.               *)
C13_CheckedAtDecrement ==
    [][ \A c \in Clients :
          ShortAtDecrement(c) =>
              ~(pc'[c] = "lines" /\ sess'[c].i = sess[c].i + 1) ]_vars

(* The units of product p in the lines of a cart.                          *)
RECURSIVE UnitsInCart(_, _)
UnitsInCart(lines, p) ==
    IF lines = <<>> THEN 0
    ELSE (IF lines[Len(lines)].product_id = p THEN lines[Len(lines)].qty ELSE 0)
         + UnitsInCart(Front(lines), p)

(* Client c's checkout commits an order in this step.                      *)
Commits(c) == Completes(c) /\ Len(orders') = Len(orders) + 1

(* C14: a checkout that commits creates, for each cart line (p, q) in cart *)
(* order, one order item for p with quantity q and one 'sale' log entry    *)
(* with change_qty = -q, and lowers each product's committed stock_qty by  *)
(* exactly the units the cart holds of it (by nothing for a product not in *)
(* the cart).                                                              *)
C14_LineByLine ==
    [][ \A c \in Clients :
          Commits(c) =>
              LET o == orders'[Len(orders')]
                  n == Len(cart[c])
                  m == Len(inventory_logs)
              IN  /\ Len(o.items) = n
                  /\ \A j \in 1..n : /\ o.items[j].product_id = cart[c][j].product_id
                                     /\ o.items[j].quantity = cart[c][j].qty
                  /\ Len(inventory_logs') = m + n
                  /\ \A j \in 1..n :
                        inventory_logs'[m + j] = [product_id |-> cart[c][j].product_id,
                                                  change_qty |-> -cart[c][j].qty,
                                                  reason     |-> "sale"]
                  /\ \A p \in Products :
                        products'[p].stock_qty
                            = products[p].stock_qty - UnitsInCart(cart[c], p) ]_vars

(* The step is an add-line request of client 1: its form, the product it   *)
(* resolved to and its message are in calc after it.                       *)
AddLineStep == calc' # calc \/ LineAppended(1)

(* No product answers to the form: no row has the token as barcode or SKU, *)
(* or, without a token, no row has the id.                                 *)
Unresolvable(f) ==
    IF f.barcode_or_sku # ""
    THEN \A p \in Products : /\ products[p].barcode # f.barcode_or_sku
                             /\ products[p].sku # f.barcode_or_sku
    ELSE f.product_id \notin Products

AddLineFailures ==
    {"Product not found by barcode/SKU", "Product not found", "Invalid quantity",
     "Not enough stock"}

(* C15: an add-line with quantity <= 0, with a product that does not       *)
(* resolve, or with a quantity above the product's stock_qty of the moment *)
(* leaves the cart as it was and flashes a failure.                        *)
C15_FailedAddLine ==
    [][ AddLineStep =>
          LET f   == calc'.form
              pid == calc'.pid
          IN  (\/ f.qty <= 0
               \/ Unresolvable(f)
               \/ pid # 0 /\ f.qty > products[pid].stock_qty)
              => cart' = cart /\ calc'.flash \in AddLineFailures ]_vars

(* A line for more than the stock was refused while the cart held a line,  *)
(* which is still there.                                                   *)
C15_Witness ==
    /\ calc # <<>>
    /\ calc.flash = "Not enough stock"
    /\ calc.form.qty > products[calc.pid].stock_qty
    /\ Len(cart[1]) = 1

(* C16: a successful add-line appends exactly one line (product, quantity, *)
(* line discount) at the end of the cart, a failed one leaves the cart as  *)
(* it was, and neither changes the store: products with their stock_qty,   *)
(* customers, orders with their items, inventory log.                      *)
C16_AddLineReservesNothing ==
    [][ AddLineStep =>
          /\ db' = db
          /\ IF calc'.flash = "Item added"
             THEN cart'[1] = Append(cart[1], [product_id |-> calc'.pid,
                                              qty        |-> calc'.form.qty,
                                              discount   |-> calc'.form.line_discount])
             ELSE cart' = cart ]_vars

(* Two lines for product 1 are queued while its stock is still the one     *)
(* unit it started with.                                                   *)
C16_Witness ==
    /\ calc # <<>>
    /\ calc.flash = "Item added"
    /\ Len(cart[1]) = 2
    /\ cart[1][1].product_id = 1
    /\ cart[1][2].product_id = 1
    /\ products[1].stock_qty = 1
    /\ inventory_logs = <<>>

RefillCommits(c) ==
    pc[c] = "refill" /\ pc'[c] = "idle" /\ inventory_logs' # inventory_logs

(* C18: a refill of quantity q > 0 of an existing product that commits     *)
(* raises that product's committed stock_qty by exactly q and appends      *)
(* exactly one 'refill' entry with change_qty = q, changing no order, no   *)
(* customer and no other product; no 'refill' entry has a quantity <= 0 or *)
(* an unknown product.                                                     *)
C18_RefillAddsExactly ==
    [][ /\ \A c \in Clients :
              RefillCommits(c) =>
                  LET p == sess[c].product_id
                      q == sess[c].qty
                  IN  /\ q > 0 /\ p \in Products
                      /\ products'[p].stock_qty = products[p].stock_qty + q
                      /\ \A r \in Products \ {p} : products'[r] = products[r]
                      /\ inventory_logs' = Append(inventory_logs,
                                                  [product_id |-> p,
                                                   change_qty |-> q,
                                                   reason     |-> "refill"])
                      /\ orders' = orders
                      /\ customers' = customers
        /\ \A k \in 1..Len(inventory_logs') :
              inventory_logs'[k].reason = "refill" =>
                  /\ inventory_logs'[k].change_qty > 0
                  /\ inventory_logs'[k].product_id \in Products ]_vars

(* C19: the inventory log only grows, every committed entry staying as it  *)
(* is; every 'sale' entry has change_qty < 0 and every 'refill' entry has  *)
(* change_qty > 0, and there is no other kind of entry.                    *)
C19_LogAppendOnly ==
    [][ /\ Len(inventory_logs') >= Len(inventory_logs)
        /\ SubSeq(inventory_logs', 1, Len(inventory_logs)) = inventory_logs
        /\ \A k \in 1..Len(inventory_logs') :
              \/ /\ inventory_logs'[k].reason = "sale"
                 /\ inventory_logs'[k].change_qty < 0
              \/ /\ inventory_logs'[k].reason = "refill"
                 /\ inventory_logs'[k].change_qty > 0 ]_vars

(* The log holds a refill between two sales.                               *)
C19_Witness ==
    /\ Len(inventory_logs) >= 3
    /\ inventory_logs[1].reason = "sale"
    /\ inventory_logs[2].reason = "refill"
    /\ inventory_logs[3].reason = "sale"

(* The sum of change_qty over the log entries of product p.                *)
RECURSIVE LogSum(_, _)
LogSum(logs, p) ==
    IF logs = <<>> THEN 0
    ELSE (IF logs[Len(logs)].product_id = p THEN logs[Len(logs)].change_qty ELSE 0)
         + LogSum(Front(logs), p)

(* The 'sale' entries of a log.                                          *)
SaleLogs(logs) == SelectSeq(logs, LAMBDA l : l.reason = "sale")

(* The units of product p in the items of the committed orders.            *)
RECURSIVE UnitsSold(_, _)
UnitsSold(os, p) ==
    IF os = <<>> THEN 0
    ELSE UnitsOf(os[Len(os)].items, p) + UnitsSold(Front(os), p)

(* C20: at every committed state, each product's stock_qty is its initial  *)
(* stock plus the sum of change_qty over its committed log entries, and    *)
(* the units of it in committed order items are the negated sum of its     *)
(* 'sale' entries, whatever the interleaving of checkouts and refills.     *)
C20_LedgerConservation ==
    \A p \in Products :
        /\ products[p].stock_qty
               = InitProducts[p].stock_qty + LogSum(inventory_logs, p)
        /\ UnitsSold(orders, p) = - LogSum(SaleLogs(inventory_logs), p)

====
